---------------------------- MODULE Spec2Model ----------------------------
(***************************************************************************)
(* A model of efi-bindgen's extraction core (src/src/parser.rs): the type  *)
(* normalizer, the argument classifier, the two-pass method extractor, the *)
(* record and protocol extractors and the tree walk that drives them.      *)
(*                                                                         *)
(* Strings are TLA+ strings; Option<T> is a sequence of length 0 (None) or *)
(* 1 (Some); Result<T, String> is a record with an "ok" flag.  AST types   *)
(* and entities are records that answer the libclang queries the code      *)
(* makes of them.                                                          *)
(***************************************************************************)
EXTENDS Integers, Sequences, FiniteSets, TLC

VARIABLES
    pc,         \* position of the operation under check
    typ,        \* the Type handed to to_efi_type / to_efi_method
    entity,     \* the Entity handed to process_typedef / process_struct
    module,     \* the EfiModule being assembled (types.rs:62)
    result,     \* what the operation returned
    ast,        \* the translation unit's entities, in pre-order
    stack,      \* the process_tu activations, innermost last
    visited,    \* the entities process_tu was called on, in call order
    dispatched, \* the entities handed to an extractor, in call order
    ret         \* what parse returned to its caller

vars == <<pc, typ, entity, module, result, ast, stack, visited, dispatched, ret>>

(***************************************************************************)
(* Option and Result                                                       *)
(***************************************************************************)
None == <<>>

Some(x) == <<x>>

Ok(v) == [ok |-> TRUE, val |-> v]

Err(msg) == [ok |-> FALSE, err |-> msg]

(***************************************************************************)
(* str::starts_with, str::ends_with, str::trim_left_matches('_')           *)
(***************************************************************************)
starts_with(s, p) == Len(s) >= Len(p) /\ SubSeq(s, 1, Len(p)) = p

ends_with(s, p) == Len(s) >= Len(p) /\ SubSeq(s, Len(s) - Len(p) + 1, Len(s)) = p

RECURSIVE trim_left_matches(_)
trim_left_matches(s) ==
    IF Len(s) > 0 /\ SubSeq(s, 1, 1) = "_"
    THEN trim_left_matches(SubSeq(s, 2, Len(s)))
    ELSE s

(***************************************************************************)
(* types.rs                                                                *)
(***************************************************************************)
Id(name) == [tag |-> "Id", name |-> name]

Ptr(t) == [tag |-> "Ptr", to |-> t]

Prim(tag) == [tag |-> tag]

EfiArg(name, t, dir, optional) ==
    [name |-> name, typ |-> t, dir |-> dir, optional |-> optional]

EfiMethod(name, t, args) == [name |-> name, typ |-> t, args |-> args]

EfiField(name, t) == [name |-> name, typ |-> t]

EfiStruct(name, fields) == [tag |-> "EfiStruct", name |-> name, fields |-> fields]

EfiUnion(name, fields) == [tag |-> "EfiUnion", name |-> name, fields |-> fields]

EfiProtocol(name, methods, fields) ==
    [name |-> name, methods |-> methods, fields |-> fields]

EfiModule(protocols, records) == [protocols |-> protocols, records |-> records]

(***************************************************************************)
(* The libclang queries the code makes.  A Type carries "kind" and, where  *)
(* it has them, "decl" (its declaration Entity), "display", "pointee",     *)
(* "canonical", "fields", "res" and "args"; an Entity carries "kind",      *)
(* "name", "children" and, where it has them, "type", "underlying",        *)
(* "inHeader".                                                             *)
(***************************************************************************)
Entity(kind, name, children) == [kind |-> kind, name |-> name, children |-> children]

get_kind(x) == x.kind

get_name(e) == e.name

get_children(e) == e.children

get_declaration(t) == IF "decl" \in DOMAIN t THEN Some(t.decl) ELSE None

get_display_name(t) == IF "display" \in DOMAIN t THEN t.display ELSE t.kind

get_pointee_type(t) == IF "pointee" \in DOMAIN t THEN Some(t.pointee) ELSE None

get_fields(t) == IF "fields" \in DOMAIN t THEN Some(t.fields) ELSE None

get_result_type(t) == IF "res" \in DOMAIN t THEN Some(t.res) ELSE None

get_argument_types(t) == IF "args" \in DOMAIN t THEN Some(t.args) ELSE None

get_type(e) == IF "type" \in DOMAIN e THEN Some(e.type) ELSE None

get_typedef_underlying_type(e) ==
    IF "underlying" \in DOMAIN e THEN Some(e.underlying) ELSE None

\* The canonical type: a typedef gives the type behind it, every other type
\* is its own canonical type (the inputs keep a pointer's pointee canonical
\* wherever the code asks for the pointer's canonical type).
get_canonical_type(t) == IF "canonical" \in DOMAIN t THEN t.canonical ELSE t

(***************************************************************************)
(* TypeNormalizer: type_name and to_efi_type                               *)
(***************************************************************************)
type_name(t) ==
    LET d == get_declaration(t)
        n == IF d = None THEN None ELSE get_name(d[1])
    IN  trim_left_matches(IF n = None THEN get_display_name(t) ELSE n[1])

PrimitiveAlias ==
    [n \in {"efi_status", "efi_uintn", "efi_intn", "efi_bool", "efi_int8",
            "efi_uint8", "efi_int16", "efi_uint16", "efi_int32", "efi_uint32",
            "efi_int64", "efi_uint64", "efi_char8", "efi_char16"} |->
        CASE n = "efi_status" -> "Status"
          [] n = "efi_uintn"  -> "UIntN"
          [] n = "efi_intn"   -> "IntN"
          [] n = "efi_bool"   -> "Bool"
          [] n = "efi_int8"   -> "Int8"
          [] n = "efi_uint8"  -> "UInt8"
          [] n = "efi_int16"  -> "Int16"
          [] n = "efi_uint16" -> "UInt16"
          [] n = "efi_int32"  -> "Int32"
          [] n = "efi_uint32" -> "UInt32"
          [] n = "efi_int64"  -> "Int64"
          [] n = "efi_uint64" -> "UInt64"
          [] n = "efi_char8"  -> "Char8"
          [] n = "efi_char16" -> "Char16"]

RECURSIVE to_efi_type(_)

\* to_efi_type with the typedef arm propagating the canonical type's failure.
to_efi_type_propagates(t) ==
    CASE get_kind(t) = "Record" ->
            LET name == type_name(t)
            IN  IF name \in DOMAIN PrimitiveAlias
                THEN Ok(Prim(PrimitiveAlias[name]))
                ELSE Ok(Id(name))
      [] get_kind(t) = "Enum" -> Ok(Id(type_name(t)))
      [] get_kind(t) = "Pointer" ->
            LET pointee == get_pointee_type(t)
            IN  IF pointee = None
                THEN Err("pointer has not pointee type")
                ELSE LET r == to_efi_type(pointee[1])
                     IN  IF r.ok THEN Ok(Ptr(r.val)) ELSE r
      [] get_kind(t) = "Typedef" -> to_efi_type(get_canonical_type(t))
      [] OTHER -> Err("unsupported type " \o get_display_name(t))

to_efi_type(t) ==
    CASE get_kind(t) = "Record" ->
            LET name == type_name(t)
            IN  IF name \in DOMAIN PrimitiveAlias
                THEN Ok(Prim(PrimitiveAlias[name]))
                ELSE Ok(Id(name))
      [] get_kind(t) = "Enum" -> Ok(Id(type_name(t)))
      [] get_kind(t) = "Pointer" ->
            LET pointee == get_pointee_type(t)
            IN  IF pointee = None
                THEN Err("pointer has not pointee type")
                ELSE LET r == to_efi_type(pointee[1])
                     IN  IF r.ok THEN Ok(Ptr(r.val)) ELSE r
      [] get_kind(t) = "Typedef" ->
            LET r == to_efi_type(get_canonical_type(t))
            IN  IF r.ok THEN r ELSE Ok(Id(type_name(t)))
      [] OTHER -> Err("unsupported type " \o get_display_name(t))

(***************************************************************************)
(* ArgumentClassifier: to_efi_argdir and to_efi_argopt                     *)
(***************************************************************************)
canonical_declaration_name(t) ==
    LET d == get_declaration(get_canonical_type(t))
    IN  IF d = None THEN None ELSE get_name(d[1])

to_efi_argdir(t) ==
    LET name == canonical_declaration_name(t)
    IN  IF name = None THEN None
        ELSE CASE name[1] = "efi_arg_in"  -> Some("In")
               [] name[1] = "efi_arg_out" -> Some("Out")
               [] OTHER -> None

to_efi_argopt(t) ==
    LET name == canonical_declaration_name(t)
    IN  name # None /\ name[1] = "efi_arg_optional"

(***************************************************************************)
(* MethodExtractor, pass 1: to_efi_method                                  *)
(***************************************************************************)
\* The locals of to_efi_method's loop: the arguments collected so far, the
\* direction register, and the failure try! returned with, if any.
MethodLocals(efi_args, dir, failed) ==
    [efi_args |-> efi_args, dir |-> dir, failed |-> failed]

\* One iteration with the direction register falling back to In once an
\* argument has been pushed.
method_arg_dir_not_sticky(st, arg) ==
    LET new_dir == to_efi_argdir(arg)
    IN  IF new_dir # None
        THEN [st EXCEPT !.dir = new_dir[1]]
        ELSE IF to_efi_argopt(arg)
        THEN IF Len(st.efi_args) > 0
             THEN [st EXCEPT !.efi_args[Len(st.efi_args)].optional = TRUE]
             ELSE st
        ELSE LET r == to_efi_type(arg)
             IN  IF r.ok
                 THEN [st EXCEPT !.efi_args = Append(@, EfiArg("", r.val, st.dir, FALSE)),
                                 !.dir = "In"]
                 ELSE [st EXCEPT !.failed = Some(r.err)]

\* One iteration with the optional marker flagging every argument collected
\* so far instead of the last one.
method_arg_optional_all(st, arg) ==
    LET new_dir == to_efi_argdir(arg)
    IN  IF new_dir # None
        THEN [st EXCEPT !.dir = new_dir[1]]
        ELSE IF to_efi_argopt(arg)
        THEN [st EXCEPT !.efi_args =
                [i \in 1..Len(st.efi_args) |-> [st.efi_args[i] EXCEPT !.optional = TRUE]]]
        ELSE LET r == to_efi_type(arg)
             IN  IF r.ok
                 THEN [st EXCEPT !.efi_args = Append(@, EfiArg("", r.val, st.dir, FALSE))]
                 ELSE [st EXCEPT !.failed = Some(r.err)]

\* One iteration of "for ref arg in args".
method_arg(st, arg) ==
    LET new_dir == to_efi_argdir(arg)
    IN  IF new_dir # None
        THEN [st EXCEPT !.dir = new_dir[1]]
        ELSE IF to_efi_argopt(arg)
        THEN IF Len(st.efi_args) > 0
             THEN [st EXCEPT !.efi_args[Len(st.efi_args)].optional = TRUE]
             ELSE st
        ELSE LET r == to_efi_type(arg)
             IN  IF r.ok
                 THEN [st EXCEPT !.efi_args = Append(@, EfiArg("", r.val, st.dir, FALSE))]
                 ELSE [st EXCEPT !.failed = Some(r.err)]

RECURSIVE method_args(_, _, _)
method_args(args, i, st) ==
    IF i > Len(args) \/ st.failed # None THEN st
    ELSE method_args(args, i + 1, method_arg(st, args[i]))

to_efi_method(t) ==
    LET res  == get_result_type(t)
        args == get_argument_types(t)
    IN  IF res = None THEN Err("function prototype without result")
        ELSE IF args = None THEN Err("function prototype without args")
        ELSE LET st == method_args(args[1], 1, MethodLocals(<<>>, "In", None))
             IN  IF st.failed # None THEN Err(st.failed[1])
                 ELSE LET r == to_efi_type(res[1])
                      IN  IF r.ok THEN Ok(EfiMethod("", r.val, st.efi_args)) ELSE r

(***************************************************************************)
(* RecordExtractor: process_typedef                                        *)
(***************************************************************************)
\* What an extractor leaves behind: its Result and the module as it now is.
Outcome(res, m) == [result |-> res, module |-> m]

Unit == <<>>

\* "for ref field in fields" of process_typedef: the EfiFields pushed, or
\* the failure try! returned with.
RECURSIVE typedef_fields(_, _, _)
typedef_fields(fields, i, efi_fields) ==
    IF i > Len(fields) THEN Ok(efi_fields)
    ELSE LET field == fields[i]
             ftyp  == get_type(field)
             name  == get_name(field)
         IN  IF ftyp = None THEN Err("field without type")
             ELSE IF name = None THEN Err("field without name")
             ELSE LET r == to_efi_type(ftyp[1])
                  IN  IF ~r.ok THEN r
                      ELSE typedef_fields(fields, i + 1,
                                          Append(efi_fields, EfiField(name[1], r.val)))

\* The record built with the Struct tag whatever the declaration's kind.
typedef_record_always_struct(kind, name, efi_fields, t) ==
    CASE kind \in {"StructDecl", "UnionDecl"} -> Ok(EfiStruct(name, efi_fields))
      [] OTHER -> Err("unsupported type " \o get_display_name(t))

\* "match kind" of process_typedef.
typedef_record(kind, name, efi_fields, t) ==
    CASE kind = "StructDecl" -> Ok(EfiStruct(name, efi_fields))
      [] kind = "UnionDecl"  -> Ok(EfiUnion(name, efi_fields))
      [] OTHER -> Err("unsupported type " \o get_display_name(t))

\* process_typedef from "let typ = ..." on: the typedef's name has passed
\* the prefix and suffix tests.
typedef_aggregate(e, name, m) ==
    LET t == get_typedef_underlying_type(e)
    IN  IF t = None THEN Outcome(Err("efi typedef without type"), m)
        ELSE
        LET fields == get_fields(get_canonical_type(t[1]))
        IN  IF fields = None THEN Outcome(Ok(Unit), m)
            ELSE
            LET efi_fields == typedef_fields(fields[1], 1, <<>>)
                d == get_declaration(t[1])
            IN  IF ~efi_fields.ok THEN Outcome(efi_fields, m)
                ELSE IF d = None
                THEN Outcome(Err("record type without declaration"), m)
                ELSE
                LET rec == typedef_record(get_kind(d[1]), name, efi_fields.val, t[1])
                IN  IF rec.ok
                    THEN Outcome(Ok(Unit), [m EXCEPT !.records = Append(@, rec.val)])
                    ELSE Outcome(rec, m)

\* process_typedef with the protocol-suffix test ahead of the prefix test.
process_typedef_suffix_first(e, m) ==
    LET name == get_name(e)
    IN  IF name = None THEN Outcome(Err("typedef without name"), m)
        ELSE IF ends_with(name[1], "_PROTOCOL") THEN Outcome(Ok(Unit), m)
        ELSE IF ~starts_with(name[1], "EFI_")
        THEN Outcome(Err("unknown typedef " \o name[1]), m)
        ELSE typedef_aggregate(e, name[1], m)

process_typedef(e, m) ==
    LET name == get_name(e)
    IN  IF name = None THEN Outcome(Err("typedef without name"), m)
        ELSE IF ~starts_with(name[1], "EFI_")
        THEN Outcome(Err("unknown typedef " \o name[1]), m)
        ELSE IF ends_with(name[1], "_PROTOCOL") THEN Outcome(Ok(Unit), m)
        ELSE typedef_aggregate(e, name[1], m)

(***************************************************************************)
(* MethodExtractor, pass 2: process_method_args                            *)
(***************************************************************************)
\* A panic: the call does not return, the stack unwinds.
Panicked(msg) == [ok |-> FALSE, panic |-> msg]

\* The args.iter_mut() handed down the recursion: the arguments, the
\* position of the iterator, and whether expect() has panicked.
ArgsIter(args, next, panicked) == [args |-> args, next |-> next, panicked |-> panicked]

\* "if entity.get_kind() == EntityKind::ParmDecl { ... }".
method_arg_name(e, it) ==
    IF get_kind(e) = "ParmDecl" /\ get_name(e) # None
    THEN IF it.next > Len(it.args)
         THEN [it EXCEPT !.panicked = TRUE]
         ELSE [it EXCEPT !.args[it.next].name = get_name(e)[1], !.next = it.next + 1]
    ELSE it

RECURSIVE process_method_args(_, _)
RECURSIVE process_method_args_children(_, _, _)
process_method_args(e, it) ==
    LET named == method_arg_name(e, it)
    IN  IF named.panicked THEN named
        ELSE process_method_args_children(get_children(e), 1, named)

process_method_args_children(children, i, it) ==
    IF i > Len(children) \/ it.panicked THEN it
    ELSE process_method_args_children(children, i + 1,
                                      process_method_args(children[i], it))

(***************************************************************************)
(* ProtocolExtractor: process_struct                                       *)
(***************************************************************************)
\* The protocol under construction and how the loop over the members ended.
StructLocals(protocol, failed) == [protocol |-> protocol, failed |-> failed]

\* The function prototype a member's canonical type points to, if any.
method_prototype(ftype) ==
    LET pointee == get_pointee_type(get_canonical_type(ftype))
    IN  IF pointee # None /\ get_kind(pointee[1]) = "FunctionPrototype"
        THEN pointee ELSE None

\* The method arm of process_struct's loop.
struct_method(st, field, name, ptype) ==
    LET decl == get_declaration(get_type(field)[1])
    IN  IF decl = None
        THEN [st EXCEPT !.failed = Some(Err("method lacks declaration"))]
        ELSE
        LET method == to_efi_method(ptype)
        IN  IF ~method.ok THEN [st EXCEPT !.failed = Some(method)]
            ELSE
            LET it == process_method_args(decl[1], ArgsIter(method.val.args, 1, FALSE))
            IN  IF it.panicked
                THEN [st EXCEPT !.failed = Some(Panicked("missing argument name"))]
                ELSE [st EXCEPT !.protocol.methods =
                        Append(@, EfiMethod(name, method.val.typ, it.args))]

\* The data-field arm of process_struct's loop.
struct_data_field(st, name, ftype) ==
    LET r == to_efi_type(ftype)
    IN  IF r.ok
        THEN [st EXCEPT !.protocol.fields = Append(@, EfiField(name, r.val))]
        ELSE [st EXCEPT !.failed = Some(r)]

\* One iteration with a method also recorded as a data field of its
\* (typedef) type.
struct_field_method_twice(st, field) ==
    LET name  == get_name(field)
        ftype == get_type(field)
    IN  IF name = None THEN [st EXCEPT !.failed = Some(Err("field lacks name"))]
        ELSE IF ftype = None
        THEN [st EXCEPT !.failed = Some(Err("protocol field lacks type"))]
        ELSE LET ptype == method_prototype(ftype[1])
             IN  IF ptype # None
                 THEN LET with == struct_method(st, field, name[1], ptype[1])
                      IN  IF with.failed # None THEN with
                          ELSE struct_data_field(with, name[1], ftype[1])
                 ELSE struct_data_field(st, name[1], ftype[1])

\* One iteration of "for ref field in fields" of process_struct.
struct_field(st, field) ==
    LET name  == get_name(field)
        ftype == get_type(field)
    IN  IF name = None THEN [st EXCEPT !.failed = Some(Err("field lacks name"))]
        ELSE IF ftype = None
        THEN [st EXCEPT !.failed = Some(Err("protocol field lacks type"))]
        ELSE LET ptype == method_prototype(ftype[1])
             IN  IF ptype # None
                 THEN struct_method(st, field, name[1], ptype[1])
                 ELSE struct_data_field(st, name[1], ftype[1])

RECURSIVE struct_fields(_, _, _)
struct_fields(fields, i, st) ==
    IF i > Len(fields) \/ st.failed # None THEN st
    ELSE struct_fields(fields, i + 1, struct_field(st, fields[i]))

process_struct(e, m) ==
    LET name == get_name(e)
    IN  IF name = None \/ ~(starts_with(name[1], "_EFI") /\ ends_with(name[1], "PROTOCOL"))
        THEN Outcome(Ok(Unit), m)
        ELSE
        LET protocol == EfiProtocol(SubSeq(name[1], 2, Len(name[1])), <<>>, <<>>)
            t        == get_type(e)
            fields   == IF t = None THEN None ELSE get_fields(t[1])
        IN  IF fields = None
            THEN Outcome(Err("protocol definition without fields"), m)
            ELSE
            LET st == struct_fields(fields[1], 1, StructLocals(protocol, None))
            IN  IF st.failed # None THEN Outcome(st.failed[1], m)
                ELSE Outcome(Ok(Unit),
                             [m EXCEPT !.protocols = Append(@, st.protocol)])

(***************************************************************************)
(* AST types the specifications draw their inputs from                     *)
(***************************************************************************)
RecordType(tag) ==
    [kind |-> "Record", decl |-> Entity("StructDecl", Some(tag), <<>>),
     display |-> "struct " \o tag]

AnonymousRecordType ==
    [kind |-> "Record", decl |-> Entity("StructDecl", None, <<>>),
     display |-> "__anon"]

EnumType(tag) ==
    [kind |-> "Enum", decl |-> Entity("EnumDecl", Some(tag), <<>>),
     display |-> "enum " \o tag]

ScalarType(kind) == [kind |-> kind, display |-> kind]

PointerType(t) == [kind |-> "Pointer", pointee |-> t, display |-> "*"]

TypedefType(name, decl, canonical) ==
    [kind |-> "Typedef", decl |-> decl, display |-> name, canonical |-> canonical]

FunctionPrototype(res, args) ==
    [kind |-> "FunctionPrototype", res |-> res, args |-> args, display |-> "fn"]

MaxTypeDepth == 3

RecordTags == {"efi_status", "efi_uintn", "_efi_bool", "__EFI_GUID", "EFI_TIME"}

TypedefNames == {"EFI_HANDLE", "_EFI_EVENT"}

LeafTypes ==
    {RecordType(n) : n \in RecordTags}
        \cup {AnonymousRecordType, EnumType("_EFI_MODE"),
              ScalarType("Int"), ScalarType("Void")}

RECURSIVE CanonicalTypes(_)
CanonicalTypes(d) ==
    IF d = 0 THEN LeafTypes
    ELSE CanonicalTypes(d - 1) \cup {PointerType(t) : t \in CanonicalTypes(d - 1)}

RECURSIVE Types(_)
Types(d) ==
    IF d = 0 THEN LeafTypes
    ELSE Types(d - 1)
            \cup {PointerType(t) : t \in Types(d - 1)}
            \cup {TypedefType(n, Entity("TypedefDecl", Some(n), <<>>), c) :
                    n \in TypedefNames, c \in CanonicalTypes(d - 1)}

(***************************************************************************)
(* Values of the variables an operation does not use                       *)
(***************************************************************************)
NoType == ScalarType("Invalid")

NoEntity == Entity("NotReferenced", None, <<>>)

NoResult == [ok |-> FALSE, err |-> "not run"]

EmptyModule == EfiModule(<<>>, <<>>)

(***************************************************************************)
(* SpecType: to_efi_type applied to one type                               *)
(***************************************************************************)
InitType ==
    /\ pc = "start"
    /\ typ \in Types(MaxTypeDepth)
    /\ entity = NoEntity
    /\ module = EmptyModule
    /\ result = NoResult
    /\ ast = <<>>
    /\ stack = <<>>
    /\ visited = <<>>
    /\ dispatched = <<>>
    /\ ret = None

NormalizeType ==
    /\ pc = "start"
    /\ result' = to_efi_type(typ)
    /\ pc' = "done"
    /\ UNCHANGED <<typ, entity, module, ast, stack, visited, dispatched, ret>>

NextType == NormalizeType

SpecType == InitType /\ [][NextType]_vars

(***************************************************************************)
(* SpecMethod: to_efi_method applied to one function prototype.  The       *)
(* prototype is the pointee of a canonical pointer type (parser.rs:198),   *)
(* so its parameter types are canonical.                                   *)
(***************************************************************************)
MaxParams == 5

ParamTypes ==
    {RecordType(n) : n \in {"efi_arg_in", "efi_arg_out", "efi_arg_optional",
                            "efi_uintn", "_efi_arg_out"}}
        \cup {ScalarType("Int")}

ResultTypes == {RecordType("efi_status"), ScalarType("Void")}

RECURSIVE SeqsUpTo(_, _)
SeqsUpTo(S, n) ==
    IF n = 0 THEN {<<>>}
    ELSE LET shorter == SeqsUpTo(S, n - 1)
         IN  shorter \cup {Append(s, x) : s \in {q \in shorter : Len(q) = n - 1}, x \in S}

InitMethod ==
    /\ pc = "start"
    /\ typ \in {FunctionPrototype(r, a) :
                    r \in ResultTypes, a \in SeqsUpTo(ParamTypes, MaxParams)}
    /\ entity = NoEntity
    /\ module = EmptyModule
    /\ result = NoResult
    /\ ast = <<>>
    /\ stack = <<>>
    /\ visited = <<>>
    /\ dispatched = <<>>
    /\ ret = None

ExtractMethod ==
    /\ pc = "start"
    /\ result' = to_efi_method(typ)
    /\ pc' = "done"
    /\ UNCHANGED <<typ, entity, module, ast, stack, visited, dispatched, ret>>

NextMethod == ExtractMethod

SpecMethod == InitMethod /\ [][NextMethod]_vars

(***************************************************************************)
(* SpecTypedef: process_typedef applied to one typedef declaration, with   *)
(* the module empty or already holding a record.                           *)
(***************************************************************************)
MaxFields == 2

MemberNames == <<"a", "b", "c", "d">>

\* The field declarations an aggregate may have at position i: named or
\* not (an unnamed bit-field), of a type that normalizes or not.
FieldTypes ==
    {RecordType("efi_uintn"),
     PointerType(RecordType("_EFI_GUID")),
     TypedefType("EFI_HANDLE", Entity("TypedefDecl", Some("EFI_HANDLE"), <<>>),
                 PointerType(ScalarType("Void"))),
     ScalarType("Int")}

FieldDecl(name, t) == [kind |-> "FieldDecl", name |-> name, children |-> <<>>, type |-> t]

FieldDeclsAt(i) ==
    {FieldDecl(n, t) : n \in {None, Some(MemberNames[i])}, t \in FieldTypes}

RECURSIVE FieldLists(_)
FieldLists(n) ==
    IF n = 0 THEN {<<>>}
    ELSE LET shorter == FieldLists(n - 1)
         IN  shorter \cup {Append(s, f) : s \in {q \in shorter : Len(q) = n - 1},
                                          f \in FieldDeclsAt(n)}

\* The type of an aggregate declared with the given kind of declaration.
AggregateType(declKind, fields) ==
    [kind |-> "Record", decl |-> Entity(declKind, None, <<>>),
     display |-> "aggregate", fields |-> fields]

\* What a typedef may name: an aggregate, another typedef of an aggregate,
\* an enum, a pointer, a scalar.
UnderlyingTypes ==
    {AggregateType(k, fs) : k \in {"StructDecl", "UnionDecl"}, fs \in FieldLists(MaxFields)}
        \cup {TypedefType("OTHER_T", Entity("TypedefDecl", Some("OTHER_T"), <<>>),
                          AggregateType("StructDecl", fs)) : fs \in FieldLists(MaxFields)}
        \cup {EnumType("EFI_MODE"), PointerType(ScalarType("Void")), ScalarType("Int")}

TypedefNamesToProcess ==
    {"EFI_TIME", "EFI_FOO_PROTOCOL", "EFI_PROTOCOL", "EFI_", "FOO", "FOO_PROTOCOL",
     "_EFI_TIME"}

TypedefDecl(name, underlying) ==
    [kind |-> "TypedefDecl", name |-> Some(name), children |-> <<>>,
     underlying |-> underlying]

ModulesBefore ==
    {EmptyModule,
     EfiModule(<<EfiProtocol("EFI_OLD_PROTOCOL", <<>>, <<>>)>>,
               <<EfiStruct("EFI_OLD", <<>>)>>)}

InitTypedef ==
    /\ pc = "start"
    /\ typ = NoType
    /\ entity \in {TypedefDecl(n, u) : n \in TypedefNamesToProcess, u \in UnderlyingTypes}
    /\ module \in ModulesBefore
    /\ result = NoResult
    /\ ast = <<>>
    /\ stack = <<>>
    /\ visited = <<>>
    /\ dispatched = <<>>
    /\ ret = None

ProcessTypedef ==
    /\ pc = "start"
    /\ LET out == process_typedef(entity, module)
       IN  /\ result' = out.result
           /\ module' = out.module
    /\ pc' = "done"
    /\ UNCHANGED <<typ, entity, ast, stack, visited, dispatched, ret>>

NextTypedef == ProcessTypedef

SpecTypedef == InitTypedef /\ [][NextTypedef]_vars

(***************************************************************************)
(* SpecStruct: process_struct applied to one struct declaration.  Each     *)
(* parameter of a method is one ParmDecl of the declaration behind the     *)
(* member's typedef and one argument type of its prototype; marker         *)
(* parameters are parameters too, written without a name or with one.      *)
(***************************************************************************)
MaxMembers == 3

MaxMethodParams == 3

ParamNames == <<"x", "y", "z", "w">>

TypeRef == Entity("TypeRef", None, <<>>)

ParmDecl(name, t) ==
    [kind |-> "ParmDecl", name |-> name, children |-> <<TypeRef>>, type |-> t]

MethodParamTypes ==
    {RecordType(n) : n \in {"efi_arg_in", "efi_arg_out", "efi_arg_optional", "efi_uintn"}}
        \cup {ScalarType("Int")}

ParmDeclsAt(i) ==
    {ParmDecl(n, t) : n \in {None, Some(ParamNames[i])}, t \in MethodParamTypes}

RECURSIVE ParmLists(_)
ParmLists(n) ==
    IF n = 0 THEN {<<>>}
    ELSE LET shorter == ParmLists(n - 1)
         IN  shorter \cup {Append(s, d) : s \in {q \in shorter : Len(q) = n - 1},
                                          d \in ParmDeclsAt(n)}

\* The prototype of a function with the given parameters.
PrototypeOf(parms) ==
    FunctionPrototype(RecordType("efi_status"), [i \in 1..Len(parms) |-> parms[i].type])

\* A member "EFI_DO name;" where "typedef efi_status (*EFI_DO)(parms);".
MethodMember(name, parms) ==
    FieldDecl(name,
              TypedefType("EFI_DO",
                          Entity("TypedefDecl", Some("EFI_DO"), <<TypeRef>> \o parms),
                          PointerType(PrototypeOf(parms))))

\* A member "efi_status (*name)(parms);": its type is a pointer and has no
\* declaration.
RawMethodMember(name, parms) == FieldDecl(name, PointerType(PrototypeOf(parms)))

SampleParms ==
    {<<ParmDecl(Some("x"), RecordType("efi_uintn"))>>,
     <<ParmDecl(None, RecordType("efi_arg_out")),
       ParmDecl(Some("y"), RecordType("efi_uintn")),
       ParmDecl(None, RecordType("efi_arg_optional"))>>}

MembersAt(i) ==
    {FieldDecl(Some(MemberNames[i]), t) :
            t \in {RecordType("efi_uintn"), PointerType(RecordType("_EFI_GUID")),
                   ScalarType("Int")}}
        \cup {FieldDecl(None, RecordType("efi_uintn"))}
        \cup {MethodMember(Some(MemberNames[i]), ps) : ps \in SampleParms}
        \cup {RawMethodMember(Some(MemberNames[i]), <<>>)}

RECURSIVE MemberLists(_)
MemberLists(n) ==
    IF n = 0 THEN {<<>>}
    ELSE LET shorter == MemberLists(n - 1)
         IN  shorter \cup {Append(s, f) : s \in {q \in shorter : Len(q) = n - 1},
                                          f \in MembersAt(n)}

\* A struct declaration; its member declarations are held once, as the
\* field list of its type.
StructDecl(name, members) ==
    [kind |-> "StructDecl", name |-> name, children |-> <<>>,
     type |-> [kind |-> "Record", display |-> "struct", fields |-> members]]

StructNames ==
    {Some("_EFI_FOO_PROTOCOL"), Some("_EFIPROTOCOL"), Some("EFI_FOO_PROTOCOL"),
     Some("_EFI_FOO"), Some("__EFI_FOO_PROTOCOL"), None}

\* Structs of up to MaxMembers members of every sort, and protocols of one
\* method of up to MaxMethodParams parameters of every sort.
StructsToProcess ==
    {StructDecl(n, ms) : n \in StructNames, ms \in MemberLists(MaxMembers)}
        \cup {StructDecl(Some("_EFI_FOO_PROTOCOL"), <<MethodMember(Some("a"), ps)>>) :
                ps \in ParmLists(MaxMethodParams)}

InitStruct ==
    /\ pc = "start"
    /\ typ = NoType
    /\ entity \in StructsToProcess
    /\ module \in ModulesBefore
    /\ result = NoResult
    /\ ast = <<>>
    /\ stack = <<>>
    /\ visited = <<>>
    /\ dispatched = <<>>
    /\ ret = None

ProcessStruct ==
    /\ pc = "start"
    /\ LET out == process_struct(entity, module)
       IN  /\ result' = out.result
           /\ module' = out.module
    /\ pc' = "done"
    /\ UNCHANGED <<typ, entity, ast, stack, visited, dispatched, ret>>

NextStruct == ProcessStruct

SpecStruct == InitStruct /\ [][NextStruct]_vars

(***************************************************************************)
(* Spec: parse, from the empty module on (parser.rs:260), walking the      *)
(* translation unit with process_tu.  The tree is held in pre-order, each  *)
(* entity with its depth: the children of an entity are the entities one   *)
(* level below it up to the next entity at its level or above.             *)
(***************************************************************************)
MaxNodes == 4

NodeLetters == <<"A", "B", "C", "D", "E", "F">>

Located(e, inHeader) == [f \in DOMAIN e \cup {"inHeader"} |->
                            IF f = "inHeader" THEN inHeader ELSE e[f]]

\* The entities that may stand at position i of the tree: typedefs and
\* structs that extract, are skipped, fail or panic, and declarations of
\* other kinds, located in the target header or in another file.
EntityVariants ==
    {"typedef", "unknown typedef", "protocol", "tag struct", "nameless member",
     "named marker", "other", "unknown typedef elsewhere"}

EntityAt(i, variant) ==
    LET L == NodeLetters[i]
        goodTypedef == TypedefDecl("EFI_" \o L,
                           AggregateType("StructDecl",
                               <<FieldDecl(Some("a"), RecordType("efi_uintn"))>>))
        badTypedef  == TypedefDecl("UINT" \o L, ScalarType("Int"))
        protocol    == StructDecl(Some("_EFI_" \o L \o "_PROTOCOL"),
                           <<FieldDecl(Some("a"), RecordType("efi_uintn"))>>)
        tagStruct   == StructDecl(Some("_EFI_" \o L),
                           <<FieldDecl(None, ScalarType("Int"))>>)
        badProtocol == StructDecl(Some("_EFI_" \o L \o "_PROTOCOL"),
                           <<FieldDecl(None, RecordType("efi_uintn"))>>)
        panicking   == StructDecl(Some("_EFI_" \o L \o "_PROTOCOL"),
                           <<MethodMember(Some("a"),
                               <<ParmDecl(Some("x"), RecordType("efi_arg_in"))>>)>>)
        other       == Entity("LinkageSpec", None, <<>>)
    IN  CASE variant = "typedef"         -> Located(goodTypedef, TRUE)
          [] variant = "unknown typedef" -> Located(badTypedef, TRUE)
          [] variant = "protocol"        -> Located(protocol, TRUE)
          [] variant = "tag struct"      -> Located(tagStruct, TRUE)
          [] variant = "nameless member" -> Located(badProtocol, TRUE)
          [] variant = "named marker"    -> Located(panicking, TRUE)
          [] variant = "other"           -> Located(other, TRUE)
          [] variant = "unknown typedef elsewhere" -> Located(badTypedef, FALSE)

TranslationUnit == Located(Entity("TranslationUnit", None, <<>>), FALSE)

\* The tree holds, for each entity, its depth and which of the entities
\* above it is.
Node(depth, variant) == [depth |-> depth, variant |-> variant]

\* The shapes of the trees of n entities, as the depths in pre-order: the
\* translation unit first, every later entity at most one level below the
\* entity before it.
RECURSIVE Shapes(_)
Shapes(n) ==
    IF n = 1 THEN {<<0>>}
    ELSE UNION {{Append(sh, d) : d \in 1..(sh[n - 1] + 1)} : sh \in Shapes(n - 1)}

Tree(shape, variants) ==
    [i \in 1..Len(shape) |->
        Node(shape[i], IF i = 1 THEN "translation unit" ELSE variants[i])]

\* Every entity a tree may hold, by position and variant.
Entities ==
    [i \in 1..Len(NodeLetters), variant \in EntityVariants \cup {"translation unit"} |->
        IF variant = "translation unit" THEN TranslationUnit
        ELSE EntityAt(i, variant)]

\* The i-th entity of the tree.
tu_entity(i) == Entities[i, ast[i].variant]

\* entity.get_children() of the i-th entity of the tree, as positions.
tu_children(i) ==
    LET S == {j \in (i + 1)..Len(ast) :
                /\ ast[j].depth = ast[i].depth + 1
                /\ \A k \in (i + 1)..j : ast[k].depth > ast[i].depth}
    IN  [k \in 1..Cardinality(S) |->
            CHOOSE j \in S : Cardinality({x \in S : x <= j}) = k]

\* The location test of process_tu.
in_efi_header(e) == "inHeader" \in DOMAIN e /\ e.inHeader

Frame(node, next) == [node |-> node, next |-> next]

Top == stack[Len(stack)]

Entered(kind) ==
    /\ pc = "walk"
    /\ stack # <<>>
    /\ Top.next = 0
    /\ in_efi_header(tu_entity(Top.node))
    /\ get_kind(tu_entity(Top.node)) = kind

\* A failed extractor treated as done: the failure is dropped and the walk
\* goes on.
ReturnedFailureDropped(out) ==
    /\ module' = out.module
    /\ visited' = Append(visited, Top.node)
    /\ dispatched' = Append(dispatched, Top.node)
    /\ IF Len(stack) > 1
       THEN /\ stack' = SubSeq(stack, 1, Len(stack) - 1)
            /\ UNCHANGED <<pc, result>>
       ELSE /\ stack' = <<>>
            /\ result' = Ok(Unit)
            /\ pc' = "walked"
    /\ UNCHANGED <<typ, entity, ast, ret>>

\* The dispatched entity's children scanned after a successful extraction.
ReturnedThenScanned(out) ==
    /\ module' = out.module
    /\ visited' = Append(visited, Top.node)
    /\ dispatched' = Append(dispatched, Top.node)
    /\ IF out.result.ok
       THEN /\ stack' = [stack EXCEPT ![Len(stack)].next = 1]
            /\ UNCHANGED <<pc, result>>
       ELSE /\ stack' = <<>>
            /\ result' = out.result
            /\ pc' = "walked"
    /\ UNCHANGED <<typ, entity, ast, ret>>

\* What "return process_...(entity, module)" does to the walk: the callers'
\* try! hand a failure up to parse, a panic unwinds them.
Returned(out) ==
    /\ module' = out.module
    /\ visited' = Append(visited, Top.node)
    /\ dispatched' = Append(dispatched, Top.node)
    /\ IF out.result.ok /\ Len(stack) > 1
       THEN /\ stack' = SubSeq(stack, 1, Len(stack) - 1)
            /\ UNCHANGED <<pc, result>>
       ELSE /\ stack' = <<>>
            /\ result' = out.result
            /\ pc' = "walked"
    /\ UNCHANGED <<typ, entity, ast, ret>>

\* parse: "try!(process_tu(&tu.get_entity(), &efi_header, &mut proto))".
CallProcessTu ==
    /\ pc = "parse"
    /\ stack' = <<Frame(1, 0)>>
    /\ pc' = "walk"
    /\ UNCHANGED <<typ, entity, module, result, ast, visited, dispatched, ret>>

\* process_tu: "EntityKind::TypedefDecl => return process_typedef(...)".
DispatchTypedef ==
    /\ Entered("TypedefDecl")
    /\ Returned(process_typedef(tu_entity(Top.node), module))

\* process_tu: "EntityKind::StructDecl => return process_struct(...)".
DispatchStruct ==
    /\ Entered("StructDecl")
    /\ Returned(process_struct(tu_entity(Top.node), module))

\* process_tu: the location or the kind test fails, on to the children.
SkipEntity ==
    /\ pc = "walk"
    /\ stack # <<>>
    /\ Top.next = 0
    /\ ~(/\ in_efi_header(tu_entity(Top.node))
         /\ get_kind(tu_entity(Top.node)) \in {"TypedefDecl", "StructDecl"})
    /\ visited' = Append(visited, Top.node)
    /\ stack' = [stack EXCEPT ![Len(stack)].next = 1]
    /\ UNCHANGED <<pc, typ, entity, module, result, ast, dispatched, ret>>

\* process_tu: "try!(process_tu(child, efi_header, module))".
VisitChild ==
    /\ pc = "walk"
    /\ stack # <<>>
    /\ Top.next >= 1
    /\ Top.next <= Len(tu_children(Top.node))
    /\ stack' = Append([stack EXCEPT ![Len(stack)].next = Top.next + 1],
                       Frame(tu_children(Top.node)[Top.next], 0))
    /\ UNCHANGED <<pc, typ, entity, module, result, ast, visited, dispatched, ret>>

\* process_tu: the children are done, "Ok(())".
ReturnOk ==
    /\ pc = "walk"
    /\ stack # <<>>
    /\ Top.next > Len(tu_children(Top.node))
    /\ stack' = SubSeq(stack, 1, Len(stack) - 1)
    /\ IF Len(stack) = 1
       THEN result' = Ok(Unit) /\ pc' = "walked"
       ELSE UNCHANGED <<pc, result>>
    /\ UNCHANGED <<typ, entity, module, ast, visited, dispatched, ret>>

\* parse: try! returns the walk's failure, else "Ok(proto)".
ParseReturns ==
    /\ pc = "walked"
    /\ "panic" \notin DOMAIN result
    /\ ret' = IF result.ok THEN Some(Ok(module)) ELSE Some(result)
    /\ pc' = "returned"
    /\ UNCHANGED <<typ, entity, module, result, ast, stack, visited, dispatched>>

\* parse: the panic of process_method_args unwinds parse too.
ParseUnwinds ==
    /\ pc = "walked"
    /\ "panic" \in DOMAIN result
    /\ pc' = "unwound"
    /\ UNCHANGED <<typ, entity, module, result, ast, stack, visited, dispatched, ret>>

Init ==
    /\ pc = "parse"
    /\ typ = NoType
    /\ entity = NoEntity
    /\ module = EmptyModule
    /\ result = NoResult
    /\ \E n \in 1..MaxNodes :
          \E shape \in Shapes(n), variants \in [2..n -> EntityVariants] :
              ast = Tree(shape, variants)
    /\ stack = <<>>
    /\ visited = <<>>
    /\ dispatched = <<>>
    /\ ret = None

Next ==
    \/ CallProcessTu
    \/ DispatchTypedef
    \/ DispatchStruct
    \/ SkipEntity
    \/ VisitChild
    \/ ReturnOk
    \/ ParseReturns
    \/ ParseUnwinds

Spec == Init /\ [][Next]_vars

(***************************************************************************)
(* Claims about to_efi_type (checked under SpecType)                       *)
(***************************************************************************)
\* A type is normalizable when, through its pointers, it ends in a record,
\* an enum or a typedef.
RECURSIVE Normalizable(_)
Normalizable(t) ==
    CASE t.kind \in {"Record", "Enum", "Typedef"} -> TRUE
      [] t.kind = "Pointer" -> Normalizable(t.pointee)
      [] OTHER -> FALSE

\* v is Named(n') where n' is n without its leading underscores.
IsNamedStripped(v, n) ==
    /\ v.tag = "Id"
    /\ ~starts_with(v.name, "_")
    /\ \E k \in 0..Len(n) :
          /\ \A i \in 1..k : SubSeq(n, i, i) = "_"
          /\ v.name = SubSeq(n, k + 1, Len(n))

\* What the claim requires of the result r of normalizing the typedef t.
TypedefNormalized(t, r) ==
    /\ r.ok
    /\ IF Normalizable(t.canonical)
       THEN r = to_efi_type(t.canonical)
       ELSE IsNamedStripped(r.val, t.display)

\* C7: typedef normalization never fails: a type of typedef kind normalizes
\* to the normalization of its canonical type when that succeeds and to
\* Named(typedef-name), leading underscores stripped, when it does not; a
\* pointer to such a typedef normalizes to PointerTo of that.
C7_TypedefNeverFails ==
    pc = "done" =>
        /\ typ.kind = "Typedef" => TypedefNormalized(typ, result)
        /\ (typ.kind = "Pointer" /\ typ.pointee.kind = "Typedef") =>
              /\ result.ok
              /\ result.val.tag = "Ptr"
              /\ TypedefNormalized(typ.pointee, Ok(result.val.to))

\* A pointer to the typedef _EFI_EVENT, whose canonical type is a pointer to
\* a bare scalar, has been normalized to PointerTo(Named(EFI_EVENT)).
C7_Witness ==
    /\ pc = "done"
    /\ typ.kind = "Pointer"
    /\ typ.pointee.kind = "Typedef"
    /\ typ.pointee.display = "_EFI_EVENT"
    /\ typ.pointee.canonical = PointerType(ScalarType("Int"))
    /\ result = Ok(Ptr(Id("EFI_EVENT")))

(***************************************************************************)
(* Claims about to_efi_method (checked under SpecMethod)                   *)
(***************************************************************************)
DeclaredName(t) == IF "decl" \in DOMAIN t THEN t.decl.name ELSE None

IsDirectionMarker(t) ==
    DeclaredName(t) \in {Some("efi_arg_in"), Some("efi_arg_out")}

IsOptionalMarker(t) == DeclaredName(t) = Some("efi_arg_optional")

IsRealParam(t) == ~IsDirectionMarker(t) /\ ~IsOptionalMarker(t)

\* The positions of the real parameters of params, and the k-th of them.
RealPositions(params) == {p \in 1..Len(params) : IsRealParam(params[p])}

RealPosition(params, k) ==
    CHOOSE p \in RealPositions(params) :
        Cardinality({q \in RealPositions(params) : q <= p}) = k

\* The direction of the nearest direction marker before position p, In if
\* there is none.
NearestDirection(params, p) ==
    LET ms == {q \in 1..(p - 1) : IsDirectionMarker(params[q])}
    IN  IF ms = {} THEN "In"
        ELSE LET m == CHOOSE q \in ms : \A o \in ms : o <= q
             IN  IF params[m].decl.name = Some("efi_arg_out") THEN "Out" ELSE "In"

\* C1: the direction register starts at In and is sticky: each real
\* argument gets the direction of the nearest preceding direction marker of
\* its method, In if there is none, and no direction marker becomes an
\* argument.
C1_DirectionSticky ==
    (pc = "done" /\ result.ok) =>
        LET params == typ.args
            args   == result.val.args
        IN  /\ Len(args) = Cardinality(RealPositions(params))
            /\ \A k \in 1..Len(args) :
                  LET p == RealPosition(params, k)
                  IN  /\ args[k].dir = NearestDirection(params, p)
                      /\ Ok(args[k].typ) = to_efi_type(params[p])

\* The sequence [out-marker, X, Y, in-marker, Z] gave [(X, Out), (Y, Out),
\* (Z, In)].
C1_Witness ==
    /\ pc = "done"
    /\ typ.args = <<RecordType("efi_arg_out"), RecordType("efi_uintn"),
                    RecordType("efi_uintn"), RecordType("efi_arg_in"),
                    RecordType("efi_uintn")>>
    /\ result.ok
    /\ [k \in 1..3 |-> result.val.args[k].dir] = <<"Out", "Out", "In">>

\* C2: an optional marker flags the most recently appended real argument
\* and adds no entry, so the argument count is the parameter count minus
\* the direction and optional markers; an optional marker before the first
\* real argument is dropped without error; an argument with no optional
\* marker before the next real argument keeps optional = FALSE.
C2_OptionalMarker ==
    pc = "done" =>
        LET params  == typ.args
            markers == {p \in 1..Len(params) : ~IsRealParam(params[p])}
            reals   == RealPositions(params)
        IN  /\ result.ok <=>
                  /\ \A p \in reals : Normalizable(params[p])
                  /\ Normalizable(typ.res)
            /\ result.ok =>
                  LET args == result.val.args
                  IN  /\ Len(args) = Len(params) - Cardinality(markers)
                      /\ \A k \in 1..Len(args) :
                            LET from == RealPosition(params, k)
                                to   == IF k = Len(args) THEN Len(params) + 1
                                        ELSE RealPosition(params, k + 1)
                            IN  args[k].optional <=>
                                    \E q \in (from + 1)..(to - 1) :
                                        IsOptionalMarker(params[q])

\* [optional-marker, X, out-marker, optional-marker, Y] gave two arguments,
\* the first optional (through the direction marker), the second not.
C2_Witness ==
    /\ pc = "done"
    /\ typ.args = <<RecordType("efi_arg_optional"), RecordType("efi_uintn"),
                    RecordType("efi_arg_out"), RecordType("efi_arg_optional"),
                    RecordType("efi_uintn")>>
    /\ result.ok
    /\ Len(result.val.args) = 2
    /\ result.val.args[1].optional
    /\ ~result.val.args[2].optional

(***************************************************************************)
(* Claims about process_typedef (checked under SpecTypedef)                *)
(***************************************************************************)
HasDomainPrefix(name) == Len(name) >= 4 /\ SubSeq(name, 1, 4) = "EFI_"

HasProtocolSuffix(name) ==
    Len(name) >= 9 /\ SubSeq(name, Len(name) - 8, Len(name)) = "_PROTOCOL"

\* The member list of the aggregate behind the typedef e, if it has one.
AggregateMembers(e) ==
    LET u == e.underlying
        c == IF u.kind = "Typedef" THEN u.canonical ELSE u
    IN  IF "fields" \in DOMAIN c THEN Some(c.fields) ELSE None

\* The record the claim expects for the typedef e.
ExpectedRecord(e) ==
    LET ms == AggregateMembers(e)[1]
    IN  [tag    |-> CASE e.underlying.decl.kind = "StructDecl" -> "EfiStruct"
                      [] e.underlying.decl.kind = "UnionDecl"  -> "EfiUnion"
                      [] OTHER -> "neither",
         name   |-> e.name[1],
         fields |-> [i \in 1..Len(ms) |->
                        [name |-> ms[i].name[1], typ |-> to_efi_type(ms[i].type).val]]]

\* C4: a successful process_typedef of a typedef with the domain prefix,
\* without the protocol suffix and with an aggregate behind it appends
\* exactly one record: named as the typedef, tagged Struct or Union as the
\* underlying declaration, its fields the aggregate's members one to one in
\* (name, normalized type), in order.
C4_RecordMatchesAggregate ==
    [][(/\ pc = "start" /\ pc' = "done"
        /\ HasDomainPrefix(entity.name[1])
        /\ ~HasProtocolSuffix(entity.name[1])
        /\ AggregateMembers(entity) # None
        /\ result'.ok)
       => /\ module'.protocols = module.protocols
          /\ module'.records = Append(module.records, ExpectedRecord(entity))
          /\ ExpectedRecord(entity).tag \in {"EfiStruct", "EfiUnion"}]_vars

\* A union with two members has been appended after the record the module
\* already held.
C4_Witness ==
    /\ pc = "done"
    /\ result.ok
    /\ Len(module.records) = 2
    /\ module.records[2].tag = "EfiUnion"
    /\ module.records[2].name = "EFI_TIME"
    /\ module.records[2].fields =
          <<EfiField("a", Ptr(Id("EFI_GUID"))), EfiField("b", Id("EFI_HANDLE"))>>

\* Every member of the aggregate has a name and a type that normalizes.
AllFieldsExtract(e) ==
    \A i \in 1..Len(AggregateMembers(e)[1]) :
        LET f == AggregateMembers(e)[1][i]
        IN  f.name # None /\ Normalizable(f.type)

\* The skip-versus-error policy of process_typedef, by the first case that
\* applies; kindFailure is what the claim says of the last case.
TypedefPolicy(e, before, after, res, kindFailure) ==
    LET name == e.name[1]
    IN  CASE ~HasDomainPrefix(name) ->
                /\ res = Err("unknown typedef " \o name)
                /\ after = before
          [] HasProtocolSuffix(name) -> res.ok /\ after = before
          [] AggregateMembers(e) = None -> res.ok /\ after = before
          [] e.underlying.decl.kind \notin {"StructDecl", "UnionDecl"} ->
                /\ ~res.ok
                /\ after = before
                /\ kindFailure
          [] OTHER -> TRUE

UnsupportedKind(e) == Err("unsupported type " \o e.underlying.display)

\* C10 as stated: ... and a typedef to an aggregate whose underlying
\* declaration is neither struct nor union fails with UnsupportedKind
\* without appending a record.
C10_AsStated ==
    [][(pc = "start" /\ pc' = "done")
       => TypedefPolicy(entity, module, module', result',
                        result' = UnsupportedKind(entity))]_vars

\* C10 (amended): the policy is checked in this order: no domain prefix
\* fails with UnknownTypedef (even with the protocol suffix); else the
\* protocol suffix returns success, module unchanged; else no aggregate
\* field list returns success, module unchanged; and a typedef to an
\* aggregate whose underlying declaration is neither struct nor union fails
\* without appending a record, with UnsupportedKind when every member of the
\* aggregate extracts (the members are extracted first, and a member's
\* failure is the one returned).
C10_SkipVersusError ==
    [][(pc = "start" /\ pc' = "done")
       => TypedefPolicy(entity, module, module', result',
                        /\ AllFieldsExtract(entity) =>
                              result' = UnsupportedKind(entity)
                        /\ ~AllFieldsExtract(entity) =>
                              result' # UnsupportedKind(entity))]_vars

\* A typedef of a typedef of an aggregate with two good members has failed
\* with the kind failure, the module as it was.
C10_Witness ==
    /\ pc = "done"
    /\ entity.name = Some("EFI_TIME")
    /\ entity.underlying.kind = "Typedef"
    /\ Len(entity.underlying.canonical.fields) = 2
    /\ AllFieldsExtract(entity)
    /\ result = Err("unsupported type OTHER_T")
    /\ module \in ModulesBefore

(***************************************************************************)
(* Claims about process_struct and process_method_args (checked under      *)
(* SpecStruct)                                                             *)
(***************************************************************************)
MatchesProtocolConvention(name) ==
    /\ name # None
    /\ Len(name[1]) >= 8
    /\ SubSeq(name[1], 1, 4) = "_EFI"
    /\ SubSeq(name[1], Len(name[1]) - 7, Len(name[1])) = "PROTOCOL"

\* A member whose type is, behind its typedefs, a pointer to a function
\* prototype.
IsFunctionPointerMember(f) ==
    LET c == IF f.type.kind = "Typedef" THEN f.type.canonical ELSE f.type
    IN  c.kind = "Pointer" /\ c.pointee.kind = "FunctionPrototype"

\* The names in xs (members, methods or fields), in order.
NamesOf(xs) == [i \in 1..Len(xs) |-> xs[i].name]

IsDataMember(f) == ~IsFunctionPointerMember(f)

\* The names of the function-pointer members of ms, and of its other
\* members, each in source order.
MethodMemberNames(ms) ==
    LET sel == SelectSeq(ms, IsFunctionPointerMember)
    IN  [i \in 1..Len(sel) |-> sel[i].name[1]]

DataMemberNames(ms) ==
    LET sel == SelectSeq(ms, IsDataMember)
    IN  [i \in 1..Len(sel) |-> sel[i].name[1]]

\* C3: a successful process_struct of a struct whose name matches the
\* protocol naming convention appends exactly one protocol, named as the
\* struct without its first character, whose methods are the struct's
\* function-pointer members and whose fields are its other members, each
\* member in exactly one list and each list in source order.
C3_MembersPartitioned ==
    [][(/\ pc = "start" /\ pc' = "done"
        /\ MatchesProtocolConvention(entity.name)
        /\ result'.ok)
       => /\ module'.records = module.records
          /\ Len(module'.protocols) = Len(module.protocols) + 1
          /\ SubSeq(module'.protocols, 1, Len(module.protocols)) = module.protocols
          /\ LET p  == module'.protocols[Len(module'.protocols)]
                 ms == entity.type.fields
             IN  /\ "_" \o p.name = entity.name[1]
                 /\ NamesOf(p.methods) = MethodMemberNames(ms)
                 /\ NamesOf(p.fields) = DataMemberNames(ms)
                 /\ Len(p.methods) + Len(p.fields) = Len(ms)
                 /\ \A i \in 1..Len(p.fields) :
                       Ok(p.fields[i].typ)
                           = to_efi_type(SelectSeq(ms, IsDataMember)[i].type)]_vars

\* A protocol with a data field, a method and a second data field has been
\* appended after the protocol the module already held.
C3_Witness ==
    /\ pc = "done"
    /\ result.ok
    /\ entity.name = Some("_EFI_FOO_PROTOCOL")
    /\ Len(module.protocols) = 2
    /\ module.protocols[2].name = "EFI_FOO_PROTOCOL"
    /\ NamesOf(module.protocols[2].methods) = <<"b">>
    /\ NamesOf(module.protocols[2].fields) = <<"a", "c">>

\* The ParmDecl entities of the subtree of e that carry a name, in the
\* order pass 2 meets them.
RECURSIVE NamedParmDecls(_)
RECURSIVE NamedParmDeclsOf(_, _)
NamedParmDecls(e) ==
    (IF e.kind = "ParmDecl" /\ e.name # None THEN <<e.name[1]>> ELSE <<>>)
        \o NamedParmDeclsOf(e.children, 1)

NamedParmDeclsOf(children, i) ==
    IF i > Len(children) THEN <<>>
    ELSE NamedParmDecls(children[i]) \o NamedParmDeclsOf(children, i + 1)

\* The real arguments pass 1 collects from the prototype of member f.
RealArgCount(f) == Cardinality(RealPositions(f.type.canonical.pointee.args))

\* The first member of the struct is a method whose pass 1 succeeds and
\* whose declaration holds more named parameters than pass 1 left slots.
FirstMethodHasSpareNames(e) ==
    /\ MatchesProtocolConvention(e.name)
    /\ Len(e.type.fields) >= 1
    /\ LET f == e.type.fields[1]
       IN  /\ f.name # None
           /\ IsFunctionPointerMember(f)
           /\ f.type.kind = "Typedef"
           /\ \A p \in RealPositions(f.type.canonical.pointee.args) :
                 Normalizable(f.type.canonical.pointee.args[p])
           /\ Len(NamedParmDecls(f.type.decl)) > RealArgCount(f)

\* A failure an extractor returned, as every other failure is.
IsReturnedFailure(r) == ~r.ok /\ "err" \in DOMAIN r

\* C6: when pass 2 finds more parameter declarations than pass 1 left
\* argument slots, extraction fails with a failure that is returned like
\* every other extractor failure, and nothing of the method is retained.
C6_ArityMismatchIsFailure ==
    (pc = "done" /\ FirstMethodHasSpareNames(entity)) =>
        /\ IsReturnedFailure(result)
        /\ module \in ModulesBefore

\* The spare name has been met: process_struct has not returned.
C6_Witness ==
    /\ pc = "done"
    /\ FirstMethodHasSpareNames(entity)
    /\ result = Panicked("missing argument name")

\* The member of e that the method m was extracted from.
MemberOf(e, m) == CHOOSE f \in {e.type.fields[i] : i \in 1..Len(e.type.fields)} :
                      f.name = Some(m.name)

\* C8: in every method of a successfully extracted protocol the parameter
\* declarations met in pass 2 are as many as the real arguments of pass 1
\* and the i-th argument carries the i-th declaration's name, so no
\* argument keeps the empty name of pass 1.
C8_NamesMatchArguments ==
    (pc = "done" /\ result.ok /\ MatchesProtocolConvention(entity.name)) =>
        LET p == module.protocols[Len(module.protocols)]
        IN  \A k \in 1..Len(p.methods) :
                LET m     == p.methods[k]
                    names == NamedParmDecls(MemberOf(entity, m).type.decl)
                IN  /\ Len(names) = Len(m.args)
                    /\ \A i \in 1..Len(m.args) :
                          m.args[i].name = names[i] /\ m.args[i].name # ""

\* A method whose first real parameter is written without a name has been
\* returned with the second parameter's name on its first argument and its
\* second argument unnamed.
C8_Witness ==
    /\ pc = "done"
    /\ result.ok
    /\ MatchesProtocolConvention(entity.name)
    /\ Len(module.protocols[Len(module.protocols)].methods) = 1
    /\ LET m == module.protocols[Len(module.protocols)].methods[1]
       IN  /\ Len(m.args) = 2
           /\ m.args[1].name = "y"
           /\ m.args[2].name = ""

(***************************************************************************)
(* Claims about process_tu and parse (checked under Spec)                  *)
(***************************************************************************)
\* The entity at position n is in the target header and is a typedef or a
\* struct declaration.
Qualifies(n) ==
    /\ tu_entity(n).inHeader
    /\ tu_entity(n).kind \in {"TypedefDecl", "StructDecl"}

IsAncestor(a, n) == a < n /\ \A k \in (a + 1)..n : ast[k].depth > ast[a].depth

\* The positions in S in increasing order, which is pre-order.
InPreOrder(S) ==
    [k \in 1..Cardinality(S) |-> CHOOSE j \in S : Cardinality({x \in S : x <= j}) = k]

\* The entities no qualifying entity stands above, and those of them that
\* qualify.
Reached == {n \in 1..Len(ast) : \A a \in 1..(n - 1) : IsAncestor(a, n) => ~Qualifies(a)}

ToDispatch == {n \in Reached : Qualifies(n)}

IsPrefix(s, t) == Len(s) <= Len(t) /\ s = SubSeq(t, 1, Len(s))

\* What the extractor of the entity at position n adds to an empty module.
ExtractedAlone(n) ==
    IF tu_entity(n).kind = "TypedefDecl"
    THEN process_typedef(tu_entity(n), EmptyModule)
    ELSE process_struct(tu_entity(n), EmptyModule)

RECURSIVE ExtractedInOrder(_, _)
ExtractedInOrder(nodes, i) ==
    IF i > Len(nodes) THEN EmptyModule
    ELSE LET rest == ExtractedInOrder(nodes, i + 1)
             here == ExtractedAlone(nodes[i]).module
         IN  EfiModule(here.protocols \o rest.protocols, here.records \o rest.records)

\* C9: the walk is depth-first and pre-order with a per-entity filter: an
\* entity of the target header that is a typedef or struct declaration is
\* dispatched once and its children are not scanned; any other entity is
\* not extracted and its children are visited; so the walk visits, in
\* pre-order, exactly the entities with no dispatched ancestor, dispatches
\* those of them that qualify, and the module holds the protocols and the
\* records in the order of discovery.  (A walk that a failure stops has
\* done so up to the failing entity.)
C9_PreOrderDispatch ==
    /\ IsPrefix(visited, InPreOrder(Reached))
    /\ IsPrefix(dispatched, InPreOrder(ToDispatch))
    /\ dispatched = SelectSeq(visited, Qualifies)
    /\ module = ExtractedInOrder(dispatched, 1)
    /\ (pc \in {"walked", "returned"} /\ result.ok) =>
          /\ visited = InPreOrder(Reached)
          /\ dispatched = InPreOrder(ToDispatch)

\* A walk has ended in which a typedef outside the target header was passed
\* over and its child visited, and a declaration nested under the
\* dispatched struct was not visited.
C9_Witness ==
    /\ pc = "returned"
    /\ ret # None /\ ret[1].ok
    /\ Len(ast) = 4
    /\ visited = <<1, 2, 3>>
    /\ dispatched = <<3>>
    /\ tu_entity(2).kind = "TypedefDecl" /\ ~tu_entity(2).inHeader
    /\ ast[3].depth = 2
    /\ ast[4].depth = 3 /\ Qualifies(4)
    /\ Len(module.protocols) = 1

\* The entity at position n makes its extractor fail.
ExtractorFails(n) == Qualifies(n) /\ ~ExtractedAlone(n).result.ok

\* C5: the walk is fail-fast: the first failure of a dispatched extractor
\* stops it, no entity is visited or extracted after the failing one, and
\* parse returns the failure and no module, whatever was accumulated
\* before; a module is returned only by a walk in which nothing failed.
C5_FailFast ==
    /\ \A k \in 1..Len(dispatched) :
          ExtractorFails(dispatched[k]) =>
              /\ k = Len(dispatched)
              /\ visited[Len(visited)] = dispatched[k]
              /\ stack = <<>>
              /\ ~result.ok
              /\ module = ExtractedInOrder(SubSeq(dispatched, 1, k - 1), 1)
    /\ ret # None =>
          IF \E k \in 1..Len(dispatched) : ExtractorFails(dispatched[k])
          THEN ~ret[1].ok /\ "val" \notin DOMAIN ret[1]
          ELSE ret[1] = Ok(module)

\* parse has returned the failure of the third entity's extractor, after a
\* record had been accumulated and with a qualifying entity left unvisited.
C5_Witness ==
    /\ pc = "returned"
    /\ Len(ast) = 4
    /\ dispatched = <<2, 3>>
    /\ visited = <<1, 2, 3>>
    /\ Qualifies(4) /\ ast[4].depth = 1
    /\ Len(module.records) = 1
    /\ ret = Some(Err("field lacks name"))

=============================================================================
